---- MODULE Spec2Model ----
(***************************************************************************)
(* Lamport one-time signatures: the three notebooks of the repository.     *)
(*   Mode "A"  naive                 (src/naive_lamport_signature.ipynb,   *)
(*                                    lines 1-254)                         *)
(*   Mode "C"  short public key      (lines 256-521)                       *)
(*   Mode "B"  short private key     (lines 523-786)                       *)
(*                                                                         *)
(* Values.  A Python int is an integer.  A Python bytes object is a        *)
(* sequence of numbers: 0..255 are bytes, and the numbers from 256 up are  *)
(* brackets of symbolic terms:                                             *)
(*     256 b 257            hashlib.sha3_256(b).digest()                   *)
(*     258 key nonce p 259  the p-th 32-byte block of the AES-256-CTR      *)
(*                          keystream of (key, nonce)                      *)
(*     260 t k 261          the digest t with its bit k flipped            *)
(* so that sha3_256 and the cipher are the ideal primitives of their       *)
(* contracts: equal outputs only for equal inputs.  The digests of the     *)
(* messages, whose bits the scheme reads, are bytes: sha3_table is the     *)
(* restriction of sha3_256 to the encoded messages, fixed per behaviour.   *)
(*                                                                         *)
(* A call's outcome is [err, val]: err = "" and the returned value, or the *)
(* name of the Python exception that ended the call.                       *)
(***************************************************************************)
EXTENDS Integers, Sequences, FiniteSets, TLC

VARIABLES
    sha3_table,     \* hash_message restricted to Messages: message -> digest bytes
    mode,           \* which notebook's definitions are loaded: "A", "B", "C"
    pc,             \* "start" before generate_keypair, "keyed" after
    private_key,    \* the caller's private key (list; in Mode B the seed dict)
    public_key,     \* the caller's public key (list; in Mode C the Merkle root)
    key_state,      \* "none", "generated", or how the caller malformed a key
    signed_string,  \* the message the signature was made for, or "none"
    signature,      \* the caller's signature list
    sig_state,      \* "none", "signed", or how the signature was tampered with
    enc_pos,        \* stream position of the encryptor made by the last expand_private_key
    last_call,      \* the last sign/verify call: its arguments' sizes, its
                    \* outcome, and how many times in a row it was made
    leaves,         \* argument of the last merkle_root call made directly
    root,           \* its outcome
    signatures,     \* message -> the signature sign_message returned for it
                    \* under the current private key, <<>> if none was made
    verdicts,       \* message -> what verify_signature said of signatures[message]
    target,         \* the message a signature was assembled for, or "none"
    digest_in,      \* a digest handed to the bit decoders directly
    table_in,       \* a paired table (a key list) handed to them
    output          \* what the decoders and the modes' functions gave for them

\* the caller's transcript of one key's signatures
reuse_vars == <<signatures, verdicts, target>>
\* the inputs and outputs of functions called on their own
call_vars == <<digest_in, table_in, output>>

vars == <<sha3_table, mode, pc, private_key, public_key, key_state, signed_string,
          signature, sig_state, enc_pos, last_call, leaves, root, reuse_vars, call_vars>>

-----------------------------------------------------------------------------
(* Bounds of the model *)

\* bytes of a message digest (sha3_256 gives 32)
DigestBytes == 2
\* bytes of a key element (security_parameter // 8 is 32)
KeyBytes == 1
\* the random source returns any of RandomValues on each of its first
\* FreeDraws draws of a call, and pairwise distinct values after them
FreeDraws == 2
\* longest leaf list handed to merkle_root directly
MaxLeaves == 4
\* last_call counts the repetitions of a call up to MaxRepeat
MaxRepeat == 2

(* Program constants *)

security_parameter == 8 * KeyBytes
max_message_length == 8 * DigestBytes
nonce_length == 16

Messages == {"m1", "m2"}
\* the messages of a caller who signs more than once, and of who watches them
AllMessages == Messages \cup {"m3"}
Modes == {"A", "B", "C"}
SampleBytes == {0, 1, 128}
\* the digests sha3_256 may give to a message: they differ in their first byte
Digests == {[i \in 1..DigestBytes |-> IF i = 1 THEN b ELSE 0] : b \in SampleBytes}
\* the digests handed to the bit decoders directly
AllDigests == [1..DigestBytes -> SampleBytes]
RandomValues == {0, 1}

-----------------------------------------------------------------------------
(* Python values and calls *)

Ret(v) == [err |-> "", val |-> v]
Raise(e) == [err |-> e, val |-> <<>>]

\* ls[i] of a Python list (0-based); the caller checks the range
At(ls, i) == ls[i + 1]

\* list(map(f, ls)) where calls[k] is the outcome of f(ls[k]): the first
\* exception raised ends the map
MapOutcome(calls) ==
    IF \E k \in 1..Len(calls) : calls[k].err # ""
    THEN LET first == CHOOSE k \in 1..Len(calls) :
                          /\ calls[k].err # ""
                          /\ \A h \in 1..(k - 1) : calls[h].err = ""
         IN  Raise(calls[first].err)
    ELSE Ret([k \in 1..Len(calls) |-> calls[k].val])

\* int.to_bytes(length, byteorder="big")
to_bytes(n, length) ==
    IF n < 0 \/ n >= 256 ^ length
    THEN Raise("OverflowError")
    ELSE Ret([i \in 1..length |-> (n \div (256 ^ (length - i))) % 256])

\* secrets.token_bytes(length) when the random source draws r: the model
\* draws the last byte only
token_bytes(length, r) == [i \in 1..length |-> IF i = length THEN r ELSE 0]

\* the k-th value (0-based) a call's random source gives, draws being the
\* outcomes of its first FreeDraws draws
RandomDraw(draws, k) == IF k < FreeDraws THEN draws[k] ELSE Cardinality(RandomValues) + k

\* hashlib.sha3_256(b).digest()
sha3_256(b) == <<256>> \o b \o <<257>>

\* the mask moving up from the lowest bit
bit_mask_low_first(j) == 2 ^ j

\* message_hash[i] & bit_mask != 0, bit_mask = 0b10000000 >> j
bit_mask(j) == 128 \div (2 ^ j)
BitSet(byte, mask) == (byte \div mask) % 2 = 1

\* bit i (0-based) of a digest, most significant bit of each byte first
DigestBitOf(digest, i) == (digest[(i \div 8) + 1] \div (2 ^ (7 - (i % 8)))) % 2

-----------------------------------------------------------------------------
(* Helper functions shared by the notebooks *)

\* Modes B and C: hash_bytes(b)
hash_bytes(b) == sha3_256(b)

\* hash_message(message): sha3_256 of the encoded message
hash_message(message) == sha3_table[message]

\* the element losing its lowest bit on the way to the hash
hash_key_element_shifted(key_element) ==
    LET bytes_length == security_parameter \div 8
        encoded == to_bytes(key_element \div 2, bytes_length)
    IN  IF encoded.err # "" THEN encoded ELSE Ret(sha3_256(encoded.val))

\* Mode A: hash_key_element(key_element), key_element an int
hash_key_element(key_element) ==
    LET bytes_length == security_parameter \div 8
        encoded == to_bytes(key_element, bytes_length)
    IN  IF encoded.err # "" THEN encoded ELSE Ret(sha3_256(encoded.val))

\* the bits of a byte read from its lowest bit up
key_index_low_bit_first(message_hash, bit_index) ==
    LET i == bit_index \div 8
        j == bit_index % 8
        key_bit == IF BitSet(At(message_hash, i), bit_mask(7 - j)) THEN 1 ELSE 0
    IN  2 * bit_index + key_bit

\* the message hash bit left out of the index
key_index_nobit(message_hash, bit_index) == 2 * bit_index

\* key_index of choose_key_elements for bit_index = i * 8 + j
key_index(message_hash, bit_index) ==
    LET i == bit_index \div 8
        j == bit_index % 8
        key_bit == IF BitSet(At(message_hash, i), bit_mask(j)) THEN 1 ELSE 0
    IN  2 * bit_index + key_bit

\* Modes A and B: choose_key_elements(message_hash, key)
choose_key_elements(message_hash, key) ==
    LET nbits == (max_message_length \div 8) * 8
    IN  IF \E b \in 0..(nbits - 1) : key_index(message_hash, b) >= Len(key)
        THEN Raise("IndexError")
        ELSE Ret([b \in 1..nbits |-> At(key, key_index(message_hash, b - 1))])

\* the bits of each byte listed from its lowest bit up
convert_bytes_to_bits_low_first(b) ==
    [k \in 1..(8 * Len(b)) |->
        BitSet(At(b, (k - 1) \div 8), bit_mask(7 - ((k - 1) % 8)))]

\* Mode C: convert_bytes_to_bits(b)
convert_bytes_to_bits(b) ==
    [k \in 1..(8 * Len(b)) |-> BitSet(At(b, (k - 1) \div 8), bit_mask((k - 1) % 8))]

\* the single leaf hashed on its way out
RECURSIVE merkle_root_hashed_leaf(_)
merkle_root_hashed_leaf(ls) ==
    IF Len(ls) = 1 THEN Ret(hash_bytes(ls[1]))
    ELSE IF Len(ls) = 0 THEN Raise("RecursionError")
    ELSE LET mid == Len(ls) \div 2
             left_subtree == merkle_root_hashed_leaf(SubSeq(ls, 1, mid))
             right_subtree == merkle_root_hashed_leaf(SubSeq(ls, mid + 1, Len(ls)))
         IN  IF left_subtree.err # "" THEN left_subtree
             ELSE IF right_subtree.err # "" THEN right_subtree
             ELSE Ret(hash_bytes(left_subtree.val \o right_subtree.val))

\* the two subtrees hashed in the order of their values' lengths and first
\* bytes, whichever side they come from
RECURSIVE merkle_root_unordered(_)
merkle_root_unordered(ls) ==
    IF Len(ls) = 1 THEN Ret(ls[1])
    ELSE IF Len(ls) = 0 THEN Raise("RecursionError")
    ELSE LET mid == Len(ls) \div 2
             left_subtree == merkle_root_unordered(SubSeq(ls, 1, mid))
             right_subtree == merkle_root_unordered(SubSeq(ls, mid + 1, Len(ls)))
             left_first ==
                 \/ Len(left_subtree.val) < Len(right_subtree.val)
                 \/ /\ Len(left_subtree.val) = Len(right_subtree.val)
                    /\ \E k \in 1..Len(left_subtree.val) :
                          /\ left_subtree.val[k] < right_subtree.val[k]
                          /\ \A h \in 1..(k - 1) :
                                left_subtree.val[h] = right_subtree.val[h]
         IN  IF left_subtree.err # "" THEN left_subtree
             ELSE IF right_subtree.err # "" THEN right_subtree
             ELSE IF left_first
                  THEN Ret(hash_bytes(left_subtree.val \o right_subtree.val))
                  ELSE Ret(hash_bytes(right_subtree.val \o left_subtree.val))

\* Mode C: merkle_root(ls).  On the empty list the code calls itself on
\* ls[:0] = [] without end, which Python stops with RecursionError.
RECURSIVE merkle_root(_)
merkle_root(ls) ==
    IF Len(ls) = 1 THEN Ret(ls[1])
    ELSE IF Len(ls) = 0 THEN Raise("RecursionError")
    ELSE LET mid == Len(ls) \div 2
             left_subtree == merkle_root(SubSeq(ls, 1, mid))
             right_subtree == merkle_root(SubSeq(ls, mid + 1, Len(ls)))
         IN  IF left_subtree.err # "" THEN left_subtree
             ELSE IF right_subtree.err # "" THEN right_subtree
             ELSE Ret(hash_bytes(left_subtree.val \o right_subtree.val))

\* Mode B: the cipher object, its encryptor, and the block that the p-th
\* enc.update(zero_bytes) of a stream returns (zero plaintext: the keystream)
Cipher(key, nonce) == [key |-> key, nonce |-> nonce]
encryptor(cipher) == [cipher |-> cipher, pos |-> 0]
keystream(cipher, p) == <<258>> \o cipher.key \o cipher.nonce \o <<p, 259>>

\* a stale encryptor: the stream goes on where the last call left it
expand_private_key_shared(private_key_) ==
    LET cipher == Cipher(private_key_.key, private_key_.nonce)
    IN  [k \in 1..(max_message_length * 2) |->
            keystream(cipher, (enc_pos + k - 1) % (6 * max_message_length))]

\* Mode B: expand_private_key(private_key)
expand_private_key(private_key_) ==
    LET cipher == Cipher(private_key_.key, private_key_.nonce)
        enc == encryptor(cipher)
    IN  [k \in 1..(max_message_length * 2) |-> keystream(enc.cipher, enc.pos + k - 1)]

\* position of the stream after the updates that gave these blocks
StreamEnd(blocks) ==
    LET last == blocks[Len(blocks)] IN last[Len(last) - 1] + 1

-----------------------------------------------------------------------------
(* Mode A: naive *)

generate_private_key_A(draws) ==
    [k \in 1..(2 * max_message_length) |-> RandomDraw(draws, k - 1)]

\* the hashes listed from the last element to the first
generate_public_key_A_reversed(private_key_) ==
    MapOutcome([k \in 1..Len(private_key_) |->
                   hash_key_element(private_key_[Len(private_key_) + 1 - k])])

generate_public_key_A(private_key_) ==
    MapOutcome([k \in 1..Len(private_key_) |-> hash_key_element(private_key_[k])])

\* signing that uses the key up: the caller's list is empty after the call
sign_message_A_consuming(message, private_key_) ==
    LET message_hash == hash_message(message)
        outcome == choose_key_elements(message_hash, private_key_)
    IN  [err |-> outcome.err, val |-> outcome.val, private_key |-> <<>>]

\* [err, val, private_key]: private_key is the caller's list after the call
sign_message_A(message, private_key_) ==
    LET message_hash == hash_message(message)
        outcome == choose_key_elements(message_hash, private_key_)
    IN  [err |-> outcome.err, val |-> outcome.val, private_key |-> private_key_]

\* [err, val, signature]: signature is the caller's list after the call
verify_signature_A(message, public_key_, signature_) ==
    LET message_hash == hash_message(message)
        chosen_signature_hashes == choose_key_elements(message_hash, public_key_)
        derived_signature_hashes ==
            MapOutcome([k \in 1..Len(signature_) |-> hash_key_element(signature_[k])])
        outcome ==
            IF chosen_signature_hashes.err # "" THEN chosen_signature_hashes
            ELSE IF derived_signature_hashes.err # "" THEN derived_signature_hashes
            ELSE Ret(chosen_signature_hashes.val = derived_signature_hashes.val)
    IN  [err |-> outcome.err, val |-> outcome.val, signature |-> signature_]

-----------------------------------------------------------------------------
(* Mode B: short private key *)

generate_private_key_B(key_draw, nonce_draw) ==
    [key |-> token_bytes(security_parameter \div 8, key_draw),
     nonce |-> token_bytes(nonce_length, nonce_draw)]

\* the hashes listed from the last expanded element to the first
generate_public_key_B_reversed(private_key_) ==
    LET expanded_private_key == expand_private_key(private_key_)
        n == Len(expanded_private_key)
    IN  Ret([k \in 1..n |-> hash_bytes(expanded_private_key[n + 1 - k])])

generate_public_key_B(private_key_) ==
    LET expanded_private_key == expand_private_key(private_key_)
    IN  Ret([k \in 1..Len(expanded_private_key) |-> hash_bytes(expanded_private_key[k])])

sign_message_B(message, private_key_) ==
    LET message_hash == hash_message(message)
        expanded_private_key == expand_private_key(private_key_)
        outcome == choose_key_elements(message_hash, expanded_private_key)
    IN  [err |-> outcome.err, val |-> outcome.val, private_key |-> private_key_]

verify_signature_B(message, public_key_, signature_) ==
    LET message_hash == hash_message(message)
        chosen_signature_hashes == choose_key_elements(message_hash, public_key_)
        derived_signature_hashes == [k \in 1..Len(signature_) |-> hash_bytes(signature_[k])]
        outcome ==
            IF chosen_signature_hashes.err # "" THEN chosen_signature_hashes
            ELSE Ret(chosen_signature_hashes.val = derived_signature_hashes)
    IN  [err |-> outcome.err, val |-> outcome.val, signature |-> signature_]

-----------------------------------------------------------------------------
(* Mode C: short public key *)

generate_private_key_C(draws) ==
    [k \in 1..(2 * max_message_length) |->
        token_bytes(security_parameter \div 8, RandomDraw(draws, k - 1))]

generate_public_key_C(private_key_) ==
    LET expanded_public_key == [k \in 1..Len(private_key_) |-> hash_bytes(private_key_[k])]
    IN  merkle_root(expanded_public_key)

\* signing that appends both private key elements of a bit position as they are
sign_message_C_raw(message, private_key_) ==
    LET message_hash == hash_message(message)
        message_bits == convert_bytes_to_bits(message_hash)
        n == Len(message_bits)
        outcome ==
            IF n > 0 /\ 2 * (n - 1) + 1 >= Len(private_key_)
            THEN Raise("IndexError")
            ELSE Ret([k \in 1..(2 * n) |-> private_key_[k]])
    IN  [err |-> outcome.err, val |-> outcome.val, private_key |-> private_key_]

sign_message_C(message, private_key_) ==
    LET message_hash == hash_message(message)
        message_bits == convert_bytes_to_bits(message_hash)
        n == Len(message_bits)
        outcome ==
            IF n > 0 /\ 2 * (n - 1) + 1 >= Len(private_key_)
            THEN Raise("IndexError")
            ELSE Ret([k \in 1..(2 * n) |->
                    LET i == (k - 1) \div 2
                        row == (k - 1) % 2
                        chosen == IF message_bits[i + 1] THEN 1 ELSE 0
                    IN  IF row = chosen THEN At(private_key_, 2 * i + row)
                        ELSE hash_bytes(At(private_key_, 2 * i + row))])
    IN  [err |-> outcome.err, val |-> outcome.val, private_key |-> private_key_]

\* the loop hashing the element of the other row
promoted_swapped(message_bits, signature_) ==
    LET n == Len(message_bits)
        index(i) == 2 * i + (IF message_bits[i + 1] THEN 0 ELSE 1)
    IN  IF \E i \in 0..(n - 1) : index(i) >= Len(signature_)
        THEN Raise("IndexError")
        ELSE Ret([k \in 1..Len(signature_) |->
                IF (k - 1) \div 2 < n /\ index((k - 1) \div 2) = k - 1
                THEN hash_bytes(signature_[k])
                ELSE signature_[k]])

\* the list the loop of verify_signature writes to, after the loop
promoted(message_bits, signature_) ==
    LET n == Len(message_bits)
        index(i) == 2 * i + (IF message_bits[i + 1] THEN 1 ELSE 0)
    IN  IF \E i \in 0..(n - 1) : index(i) >= Len(signature_)
        THEN Raise("IndexError")
        ELSE Ret([k \in 1..Len(signature_) |->
                IF (k - 1) \div 2 < n /\ index((k - 1) \div 2) = k - 1
                THEN hash_bytes(signature_[k])
                ELSE signature_[k]])

\* the loop writing to the caller's list instead of a copy of it
verify_signature_C_inplace(message, public_key_, signature_) ==
    LET message_hash == hash_message(message)
        message_bits == convert_bytes_to_bits(message_hash)
        modified_signature == promoted(message_bits, signature_)
        recomputed == IF modified_signature.err # "" THEN modified_signature
                      ELSE merkle_root(modified_signature.val)
        outcome == IF recomputed.err # "" THEN recomputed
                   ELSE Ret(public_key_ = recomputed.val)
    IN  [err |-> outcome.err, val |-> outcome.val,
         signature |-> IF modified_signature.err # "" THEN signature_
                       ELSE modified_signature.val]

\* [err, val, signature]: modified_signature is signature.copy(), so the
\* caller's list is as it was
verify_signature_C(message, public_key_, signature_) ==
    LET message_hash == hash_message(message)
        message_bits == convert_bytes_to_bits(message_hash)
        modified_signature == promoted(message_bits, signature_)
        recomputed == IF modified_signature.err # "" THEN modified_signature
                      ELSE merkle_root(modified_signature.val)
        outcome == IF recomputed.err # "" THEN recomputed
                   ELSE Ret(public_key_ = recomputed.val)
    IN  [err |-> outcome.err, val |-> outcome.val, signature |-> signature_]

-----------------------------------------------------------------------------
(* The three notebooks behind one interface *)

generate_private_key(md, draws) ==
    CASE md = "A" -> generate_private_key_A(draws)
      [] md = "B" -> generate_private_key_B(draws[0], draws[1])
      [] md = "C" -> generate_private_key_C(draws)

generate_public_key(md, private_key_) ==
    CASE md = "A" -> generate_public_key_A(private_key_)
      [] md = "B" -> generate_public_key_B(private_key_)
      [] md = "C" -> generate_public_key_C(private_key_)

sign_message(md, message, private_key_) ==
    CASE md = "A" -> sign_message_A(message, private_key_)
      [] md = "B" -> sign_message_B(message, private_key_)
      [] md = "C" -> sign_message_C(message, private_key_)

verify_signature(md, message, public_key_, signature_) ==
    CASE md = "A" -> verify_signature_A(message, public_key_, signature_)
      [] md = "B" -> verify_signature_B(message, public_key_, signature_)
      [] md = "C" -> verify_signature_C(message, public_key_, signature_)

\* what the caller sees of a call's outcome
OutcomeName(outcome) ==
    IF outcome.err # "" THEN outcome.err
    ELSE IF outcome.val = TRUE THEN "True" ELSE "False"

SignOutcomeName(outcome) == IF outcome.err # "" THEN outcome.err ELSE "returned"

\* number of elements of a signature of the mode
SignatureLength(md) == IF md = "C" THEN 2 * max_message_length ELSE max_message_length

-----------------------------------------------------------------------------
(* What a caller other than the signer may hand to the interface *)

IsRawBytes(b) == \A k \in 1..Len(b) : b[k] < 256

\* the int n with its bit k flipped
FlipIntBit(n, k) == IF (n \div (2 ^ k)) % 2 = 1 THEN n - 2 ^ k ELSE n + 2 ^ k

\* the bytes b with bit k flipped (bit 0 is the lowest bit of the last byte);
\* a flipped digest or keystream block is a string unrelated to any other
FlipBytesBit(b, k) ==
    IF IsRawBytes(b)
    THEN [i \in 1..Len(b) |->
            IF i = Len(b) - (k \div 8) THEN FlipIntBit(b[i], k % 8) ELSE b[i]]
    ELSE <<260>> \o b \o <<k, 261>>

\* the bits of an element the model flips: the lowest and the highest
FlippedBits == {0, security_parameter - 1}

\* the values an element of a signature may be replaced by
Substitutes(md, element) ==
    IF md = "A"
    THEN {FlipIntBit(element, k) : k \in FlippedBits}
         \cup RandomValues \cup {2 ^ security_parameter, 0 - 1}
    ELSE {FlipBytesBit(element, k) : k \in FlippedBits}
         \cup {token_bytes(security_parameter \div 8, r) : r \in RandomValues}
         \cup {hash_bytes(token_bytes(security_parameter \div 8, r)) : r \in RandomValues}

\* an element of the type the mode's signatures are made of
WellFormedElement(md, element) ==
    IF md = "A" THEN element >= 0 /\ element < 2 ^ security_parameter ELSE TRUE

\* the random_signature of the forgery cells
random_signature(md, draws) ==
    [k \in 1..SignatureLength(md) |->
        IF md = "A" THEN RandomDraw(draws, k - 1)
        ELSE token_bytes(security_parameter \div 8, RandomDraw(draws, k - 1))]

-----------------------------------------------------------------------------
(* State machine *)

NoCall == [op |-> "none", message |-> "none", outcome |-> "none",
           key_len |-> 0, sig_len |-> 0, count |-> 0]

\* the record of a call made now: count is 1 unless the call before it was
\* the same call on the same arguments
Call(op, message, outcome, key_len, sig_len) ==
    [op |-> op, message |-> message, outcome |-> outcome,
     key_len |-> key_len, sig_len |-> sig_len,
     count |-> IF /\ last_call.op = op
                  /\ last_call.message = message
                  /\ last_call.key_len = key_len
                  /\ last_call.sig_len = sig_len
               THEN IF last_call.count < MaxRepeat THEN last_call.count + 1
                    ELSE MaxRepeat
               ELSE 1]

\* number of elements of the key lists a call works on
PrivateKeyElements(md, private_key_) ==
    IF md = "B" THEN Len(expand_private_key(private_key_)) ELSE Len(private_key_)
PublicKeyElements(md, public_key_) == IF md = "C" THEN 1 ELSE Len(public_key_)
\* calls: how many times in a row merkle_root was called on leaves;
\* swapped: leaves is an earlier argument with two leaves swapped, and
\* before is what merkle_root returned for that argument
NoRoot == [err |-> "none", val |-> <<>>, calls |-> 0, swapped |-> FALSE, before |-> <<>>]
NoSignatures == [message \in AllMessages |-> <<>>]
NoVerdicts == [message \in AllMessages |-> "none"]
NoOutput == [op |-> "none"]

Init ==
    /\ sha3_table \in {t \in [Messages -> Digests] :
                          \A m1, m2 \in Messages : t[m1] = t[m2] => m1 = m2}
    /\ mode \in Modes
    /\ pc = "start"
    /\ private_key = <<>>
    /\ public_key = <<>>
    /\ key_state = "none"
    /\ signed_string = "none"
    /\ signature = <<>>
    /\ sig_state = "none"
    /\ enc_pos = 0
    /\ last_call = NoCall
    /\ leaves = <<>>
    /\ root = NoRoot
    /\ signatures = NoSignatures
    /\ verdicts = NoVerdicts
    /\ target = "none"
    /\ digest_in = <<>>
    /\ table_in = <<>>
    /\ output = NoOutput

\* public_key, private_key = generate_keypair()
GenerateKeypair ==
    /\ pc = "start"
    /\ \E draws \in [0..(FreeDraws - 1) -> RandomValues] :
          LET sk == generate_private_key(mode, draws)
          IN  /\ private_key' = sk
              /\ public_key' = generate_public_key(mode, sk).val
              /\ enc_pos' = IF mode = "B" THEN StreamEnd(expand_private_key(sk))
                            ELSE enc_pos
    /\ pc' = "keyed"
    /\ key_state' = "generated"
    /\ UNCHANGED <<sha3_table, mode, signed_string, signature, sig_state, last_call,
                   leaves, root>>
    /\ UNCHANGED <<reuse_vars, call_vars>>

\* signature = sign_message(message, private_key)
SignMessage ==
    /\ pc = "keyed"
    /\ sig_state \in {"none", "signed"}
    /\ \E message \in Messages :
          LET outcome == sign_message(mode, message, private_key)
          IN  /\ last_call' = Call("sign", message, SignOutcomeName(outcome),
                                   PrivateKeyElements(mode, private_key), 0)
              /\ private_key' = outcome.private_key
              /\ IF outcome.err = ""
                 THEN /\ signature' = outcome.val
                      /\ signed_string' = message
                      /\ sig_state' = "signed"
                 ELSE UNCHANGED <<signature, signed_string, sig_state>>
    /\ enc_pos' = IF mode = "B" THEN StreamEnd(expand_private_key(private_key))
                  ELSE enc_pos
    /\ UNCHANGED <<sha3_table, mode, pc, public_key, key_state, leaves, root>>
    /\ UNCHANGED <<reuse_vars, call_vars>>

\* verify_signature(message, public_key, signature)
VerifySignature ==
    /\ pc = "keyed"
    /\ sig_state # "none"
    /\ \E message \in Messages :
          LET outcome == verify_signature(mode, message, public_key, signature)
          IN  /\ last_call' = Call("verify", message, OutcomeName(outcome),
                                   PublicKeyElements(mode, public_key), Len(signature))
              /\ signature' = outcome.signature
    /\ UNCHANGED <<sha3_table, mode, pc, private_key, public_key, key_state,
                   signed_string, sig_state, enc_pos, leaves, root>>
    /\ UNCHANGED <<reuse_vars, call_vars>>

\* the caller holds a private key list with an element missing or added
\* (this and the actions after it act before the verifier is first called)
MalformPrivateKey ==
    /\ pc = "keyed"
    /\ key_state = "generated"
    /\ sig_state \in {"none", "signed"}
    /\ last_call.op # "verify"
    /\ last_call.count <= 1
    /\ mode \in {"A", "C"}
    /\ \/ /\ private_key' = SubSeq(private_key, 1, Len(private_key) - 1)
          /\ key_state' = "sk_short"
       \/ /\ private_key' = Append(private_key, private_key[1])
          /\ key_state' = "sk_long"
    /\ UNCHANGED <<sha3_table, mode, pc, public_key, signed_string, signature,
                   sig_state, enc_pos, last_call, leaves, root>>
    /\ UNCHANGED <<reuse_vars, call_vars>>

\* the caller holds a public key list with an element missing or added
MalformPublicKey ==
    /\ pc = "keyed"
    /\ key_state = "generated"
    /\ sig_state = "signed"
    /\ last_call.op = "sign"
    /\ last_call.count = 1
    /\ mode \in {"A", "B"}
    /\ \/ /\ public_key' = SubSeq(public_key, 1, Len(public_key) - 1)
          /\ key_state' = "pk_short"
       \/ /\ public_key' = Append(public_key, public_key[1])
          /\ key_state' = "pk_long"
    /\ UNCHANGED <<sha3_table, mode, pc, private_key, signed_string, signature,
                   sig_state, enc_pos, last_call, leaves, root>>
    /\ UNCHANGED <<reuse_vars, call_vars>>

\* one element of the signature is replaced on its way to the verifier
AlterSignature ==
    /\ pc = "keyed"
    /\ key_state = "generated"
    /\ sig_state = "signed"
    /\ last_call.op = "sign"
    /\ last_call.count = 1
    /\ \E k \in 1..Len(signature) :
          \E v \in Substitutes(mode, signature[k]) \ {signature[k]} :
             signature' = [signature EXCEPT ![k] = v]
    /\ sig_state' = "altered"
    /\ UNCHANGED <<sha3_table, mode, pc, private_key, public_key, key_state,
                   signed_string, enc_pos, last_call, leaves, root>>
    /\ UNCHANGED <<reuse_vars, call_vars>>

\* the signature loses elements or gains one
ResizeSignature ==
    /\ pc = "keyed"
    /\ key_state = "generated"
    /\ sig_state = "signed"
    /\ last_call.op = "sign"
    /\ last_call.count = 1
    /\ \/ /\ \E n \in {0, Len(signature) - 1} : signature' = SubSeq(signature, 1, n)
          /\ sig_state' = "short"
       \/ /\ signature' = Append(signature, signature[1])
          /\ sig_state' = "long"
    /\ UNCHANGED <<sha3_table, mode, pc, private_key, public_key, key_state,
                   signed_string, enc_pos, last_call, leaves, root>>
    /\ UNCHANGED <<reuse_vars, call_vars>>

\* random_signature = [... for _ in range(...)] of the forgery cells
ForgeSignature ==
    /\ pc = "keyed"
    /\ key_state = "generated"
    /\ sig_state \in {"none", "signed"}
    /\ last_call.op # "verify"
    /\ last_call.count <= 1
    /\ \E draws \in [0..(FreeDraws - 1) -> RandomValues] :
          signature' = random_signature(mode, draws)
    /\ sig_state' = "forged"
    /\ UNCHANGED <<sha3_table, mode, pc, private_key, public_key, key_state,
                   signed_string, enc_pos, last_call, leaves, root>>
    /\ UNCHANGED <<reuse_vars, call_vars>>

Next ==
    \/ GenerateKeypair
    \/ SignMessage
    \/ VerifySignature
    \/ MalformPrivateKey
    \/ MalformPublicKey
    \/ AlterSignature
    \/ ResizeSignature
    \/ ForgeSignature

Spec == Init /\ [][Next]_vars

-----------------------------------------------------------------------------
(* merkle_root called on its own *)

\* the leaves the model hands to merkle_root
LeafValues ==
    {token_bytes(security_parameter \div 8, r) : r \in RandomValues}
    \cup {hash_bytes(token_bytes(security_parameter \div 8, 0))}

RECURSIVE LeafLists(_)
LeafLists(n) ==
    IF n = 0 THEN {<<>>}
    ELSE LET shorter == LeafLists(n - 1)
         IN  shorter \cup {Append(ls, x) : ls \in {l \in shorter : Len(l) = n - 1},
                                            x \in LeafValues}

\* the record of a merkle_root call
RootOf(outcome, calls, swapped, before) ==
    [err |-> outcome.err, val |-> outcome.val, calls |-> calls,
     swapped |-> swapped, before |-> before]

\* root = merkle_root(ls)
MerkleRootCall ==
    /\ root = NoRoot
    /\ \E ls \in LeafLists(MaxLeaves) :
          /\ leaves' = ls
          /\ root' = RootOf(merkle_root(ls), 1, FALSE, <<>>)
    /\ UNCHANGED <<sha3_table, mode, pc, private_key, public_key, key_state,
                   signed_string, signature, sig_state, enc_pos, last_call>>
    /\ UNCHANGED <<reuse_vars, call_vars>>

\* root = merkle_root(ls) once more, ls being the same list
MerkleRootAgain ==
    /\ root # NoRoot
    /\ root.calls < MaxRepeat
    /\ root' = RootOf(merkle_root(leaves), root.calls + 1, root.swapped, root.before)
    /\ UNCHANGED <<sha3_table, mode, pc, private_key, public_key, key_state,
                   signed_string, signature, sig_state, enc_pos, last_call, leaves>>
    /\ UNCHANGED <<reuse_vars, call_vars>>

\* ls with the leaves at the 0-based indexes i and j in each other's place
swap_leaves(ls, i, j) ==
    [k \in 1..Len(ls) |-> IF k = i + 1 THEN At(ls, j)
                          ELSE IF k = j + 1 THEN At(ls, i)
                          ELSE ls[k]]

\* ls[i], ls[j] = ls[j], ls[i] for two leaves of different values, and
\* root = merkle_root(ls)
MerkleRootOfSwapped ==
    /\ root.err = ""
    /\ ~root.swapped
    /\ \E i, j \in 0..(Len(leaves) - 1) :
          /\ i < j
          /\ At(leaves, i) # At(leaves, j)
          /\ leaves' = swap_leaves(leaves, i, j)
          /\ root' = RootOf(merkle_root(swap_leaves(leaves, i, j)), 1, TRUE, root.val)
    /\ UNCHANGED <<sha3_table, mode, pc, private_key, public_key, key_state,
                   signed_string, signature, sig_state, enc_pos, last_call>>
    /\ UNCHANGED <<reuse_vars, call_vars>>

NextMerkle ==
    \/ MerkleRootCall
    \/ MerkleRootAgain
    \/ MerkleRootOfSwapped

SpecMerkle == Init /\ [][NextMerkle]_vars

-----------------------------------------------------------------------------
(* One private key used for more than one message *)

InitReuse ==
    /\ sha3_table \in {t \in [AllMessages -> Digests] :
                          \A m1, m2 \in AllMessages : t[m1] = t[m2] => m1 = m2}
    /\ mode \in Modes
    /\ pc = "start"
    /\ private_key = <<>>
    /\ public_key = <<>>
    /\ key_state = "none"
    /\ signed_string = "none"
    /\ signature = <<>>
    /\ sig_state = "none"
    /\ enc_pos = 0
    /\ last_call = NoCall
    /\ leaves = <<>>
    /\ root = NoRoot
    /\ signatures = NoSignatures
    /\ verdicts = NoVerdicts
    /\ target = "none"
    /\ digest_in = <<>>
    /\ table_in = <<>>
    /\ output = NoOutput

\* the messages the caller has a signature for
SignedMessages == {message \in AllMessages : signatures[message] # <<>>}

\* signature = sign_message(message, private_key), the caller keeping the
\* signatures made before; one message stays unsigned
SignWithSameKey ==
    /\ pc = "keyed"
    /\ target = "none"
    /\ Cardinality(SignedMessages) < Cardinality(AllMessages) - 1
    /\ \E message \in AllMessages \ SignedMessages :
          LET outcome == sign_message(mode, message, private_key)
          IN  /\ last_call' = Call("sign", message, SignOutcomeName(outcome),
                                   PrivateKeyElements(mode, private_key), 0)
              /\ private_key' = outcome.private_key
              /\ IF outcome.err = ""
                 THEN /\ signature' = outcome.val
                      /\ signatures' = [signatures EXCEPT ![message] = outcome.val]
                      /\ signed_string' = message
                      /\ sig_state' = "signed"
                 ELSE UNCHANGED <<signature, signatures, signed_string, sig_state>>
    /\ enc_pos' = IF mode = "B" THEN StreamEnd(expand_private_key(private_key))
                  ELSE enc_pos
    /\ UNCHANGED <<sha3_table, mode, pc, public_key, key_state, leaves, root,
                   verdicts, target, call_vars>>

\* verify_signature(message, public_key, <the signature made for message>)
VerifyOwnSignature ==
    /\ pc = "keyed"
    /\ \E message \in SignedMessages :
          LET outcome == verify_signature(mode, message, public_key, signatures[message])
          IN  /\ verdicts[message] = "none"
              /\ last_call' = Call("verify", message, OutcomeName(outcome),
                                   PublicKeyElements(mode, public_key),
                                   Len(signatures[message]))
              /\ signatures' = [signatures EXCEPT ![message] = outcome.signature]
              /\ verdicts' = [verdicts EXCEPT ![message] = OutcomeName(outcome)]
    /\ UNCHANGED <<sha3_table, mode, pc, private_key, public_key, key_state,
                   signed_string, signature, sig_state, enc_pos, leaves, root,
                   target, call_vars>>

\* the signed messages whose digest has the given bit at position i: their
\* signatures reveal the private key element of that branch
Revealing(i, bit) ==
    {message \in SignedMessages : DigestBitOf(hash_message(message), i) = bit}

\* a Mode A signature for message put together by someone who holds the
\* signatures made so far: at each bit position the element one of them
\* reveals for the bit of message, or a guess where none does
assembled_signature(message, guess) ==
    [k \in 1..max_message_length |->
        LET known == Revealing(k - 1, DigestBitOf(hash_message(message), k - 1))
        IN  IF known # {}
            THEN signatures[CHOOSE m \in known : TRUE][k]
            ELSE guess]

\* every digest bit of message is the bit of some signed message
Covered(message) ==
    \A i \in 0..(max_message_length - 1) :
        Revealing(i, DigestBitOf(hash_message(message), i)) # {}

\* an observer of two signatures assembles one for a message never signed
AssembleSignature ==
    /\ pc = "keyed"
    /\ mode = "A"
    /\ target = "none"
    /\ Cardinality(SignedMessages) = Cardinality(AllMessages) - 1
    /\ \E message \in AllMessages \ SignedMessages :
          \E guess \in RandomValues :
             /\ signature' = assembled_signature(message, guess)
             /\ target' = message
    /\ sig_state' = "assembled"
    /\ UNCHANGED <<sha3_table, mode, pc, private_key, public_key, key_state,
                   signed_string, enc_pos, last_call, leaves, root,
                   signatures, verdicts, call_vars>>

\* verify_signature(target, public_key, <the assembled signature>)
VerifyAssembled ==
    /\ pc = "keyed"
    /\ target # "none"
    /\ verdicts[target] = "none"
    /\ LET outcome == verify_signature(mode, target, public_key, signature)
       IN  /\ last_call' = Call("verify", target, OutcomeName(outcome),
                                PublicKeyElements(mode, public_key), Len(signature))
           /\ signature' = outcome.signature
           /\ verdicts' = [verdicts EXCEPT ![target] = OutcomeName(outcome)]
    /\ UNCHANGED <<sha3_table, mode, pc, private_key, public_key, key_state,
                   signed_string, sig_state, enc_pos, leaves, root,
                   signatures, target, call_vars>>

NextReuse ==
    \/ GenerateKeypair
    \/ SignWithSameKey
    \/ VerifyOwnSignature
    \/ AssembleSignature
    \/ VerifyAssembled

SpecReuse == InitReuse /\ [][NextReuse]_vars

-----------------------------------------------------------------------------
(* The bit decoders and the functions built on them, called on their own *)

\* the outcomes of the free draws of a call
Draws == [0..(FreeDraws - 1) -> RandomValues]

\* the list of private key elements a mode selects from: the private key of
\* the naive and of the short public key notebook, the expanded private key
\* of the short private key notebook
key_elements(md, draws) ==
    IF md = "B" THEN expand_private_key(generate_private_key(md, draws))
    ELSE generate_private_key(md, draws)

\* the message whose digest is digest_in
hashed_string == "m1"

InitCalls ==
    /\ digest_in \in AllDigests
    /\ mode \in Modes
    /\ \E draws \in Draws : table_in = key_elements(mode, draws)
    /\ sha3_table = [message \in {hashed_string} |-> digest_in]
    /\ pc = "start"
    /\ private_key = <<>>
    /\ public_key = <<>>
    /\ key_state = "none"
    /\ signed_string = "none"
    /\ signature = <<>>
    /\ sig_state = "none"
    /\ enc_pos = 0
    /\ last_call = NoCall
    /\ leaves = <<>>
    /\ root = NoRoot
    /\ signatures = NoSignatures
    /\ verdicts = NoVerdicts
    /\ target = "none"
    /\ output = NoOutput

UnchangedByCalls ==
    UNCHANGED <<sha3_table, mode, pc, private_key, public_key, key_state,
                signed_string, signature, sig_state, enc_pos, last_call, leaves,
                root, reuse_vars, digest_in, table_in>>

\* output = choose_key_elements(message_hash, key)
ChooseKeyElements ==
    /\ output = NoOutput
    /\ LET outcome == choose_key_elements(digest_in, table_in)
       IN  output' = [op |-> "choose_key_elements", err |-> outcome.err,
                      val |-> outcome.val]
    /\ UnchangedByCalls

\* convert_bytes_to_bits(b)
ConvertBytesToBits ==
    /\ output = NoOutput
    /\ output' = [op |-> "convert_bytes_to_bits", err |-> "",
                  val |-> convert_bytes_to_bits(digest_in)]
    /\ UnchangedByCalls

\* the private key of the naive notebook as the short public key notebook
\* holds it: each int as its security_parameter // 8 bytes, big end first
as_bytes(private_key_) ==
    [k \in 1..Len(private_key_) |->
        to_bytes(private_key_[k], security_parameter \div 8).val]

\* the naive and the short public key notebook run on one private key and
\* one message: generate_public_key, sign_message, and the list that
\* verify_signature of the short public key notebook hashes into
SignInBothModes ==
    /\ output = NoOutput
    /\ mode = "A"
    /\ LET sk_bytes == as_bytes(table_in)
           signature_A == sign_message_A(hashed_string, table_in)
           signature_C == sign_message_C(hashed_string, sk_bytes)
           message_bits == convert_bytes_to_bits(hash_message(hashed_string))
       IN  output' = [op |-> "sign_message",
                      err |-> IF signature_A.err # "" THEN signature_A.err
                              ELSE signature_C.err,
                      public_key_A |-> generate_public_key_A(table_in).val,
                      public_key_C |-> generate_public_key_C(sk_bytes).val,
                      signature_A |-> signature_A.val,
                      signature_C |-> signature_C.val,
                      promoted_C |-> promoted(message_bits, signature_C.val).val,
                      verified_C |-> verify_signature_C(hashed_string,
                                         generate_public_key_C(sk_bytes).val,
                                         signature_C.val).val]
    /\ UnchangedByCalls

NextCalls ==
    \/ ChooseKeyElements
    \/ ConvertBytesToBits
    \/ SignInBothModes

SpecCalls == InitCalls /\ [][NextCalls]_vars

-----------------------------------------------------------------------------
(* Properties *)

\* the keypair is as generate_keypair returned it, and the last call was a
\* verify_signature of the caller's signature
VerifiedUnderGeneratedKey == key_state = "generated" /\ last_call.op = "verify"

\* the list of private key elements the signer selects from
ExpandedKey == IF mode = "B" THEN expand_private_key(private_key) ELSE private_key

\* C1: in Modes A and B, verifying the signature sign_message returned for a
\* message, against the public key of the same generate_keypair and for the
\* same message, returns True.
C1_RoundTripAB ==
    (/\ mode \in {"A", "B"}
     /\ VerifiedUnderGeneratedKey
     /\ sig_state = "signed"
     /\ last_call.message = signed_string)
    => last_call.outcome = "True"

C1_Witness ==
    /\ mode \in {"A", "B"}
    /\ VerifiedUnderGeneratedKey
    /\ sig_state = "signed"
    /\ last_call.message = signed_string
    /\ last_call.outcome = "True"

\* C2: in Mode C, verifying the 512-element signature sign_message returned
\* for a message, for the same message, returns True: the Merkle root over
\* the promoted signature is the public key.
C2_RoundTripC ==
    (/\ mode = "C"
     /\ VerifiedUnderGeneratedKey
     /\ sig_state = "signed"
     /\ last_call.message = signed_string)
    => /\ last_call.outcome = "True"
       /\ Len(signature) = 2 * max_message_length
       /\ LET bits == convert_bytes_to_bits(hash_message(signed_string))
          IN  merkle_root(promoted(bits, signature).val).val = public_key

C2_Witness ==
    /\ mode = "C"
    /\ VerifiedUnderGeneratedKey
    /\ sig_state = "signed"
    /\ last_call.message = signed_string
    /\ last_call.outcome = "True"

\* C3 as stated: in each mode, verifying the signature of m1 for another
\* message m2 returns False.
C3_CrossMessageFalse ==
    (/\ VerifiedUnderGeneratedKey
     /\ sig_state = "signed"
     /\ last_call.message # signed_string)
    => last_call.outcome = "False"

\* some digest bit of the two messages differs, and in Modes A and B the two
\* private key elements of that bit position differ too
DistinguishingBit(m1, m2) ==
    \E i \in 0..(max_message_length - 1) :
        /\ DigestBitOf(hash_message(m1), i) # DigestBitOf(hash_message(m2), i)
        /\ mode = "C" \/ At(ExpandedKey, 2 * i) # At(ExpandedKey, 2 * i + 1)

\* C3, amended: verifying the signature of m1 for another message m2 returns
\* False whenever the digests of m1 and m2 differ in a bit position whose two
\* private key elements differ (in Mode C: in any bit position).
C3_CrossMessageFalseIfDistinguished ==
    (/\ VerifiedUnderGeneratedKey
     /\ sig_state = "signed"
     /\ last_call.message # signed_string
     /\ DistinguishingBit(signed_string, last_call.message))
    => last_call.outcome = "False"

C3_Witness ==
    /\ VerifiedUnderGeneratedKey
    /\ sig_state = "signed"
    /\ last_call.message # signed_string
    /\ DistinguishingBit(signed_string, last_call.message)
    /\ mode = "A"
    /\ At(private_key, 0) = At(private_key, 1)
    /\ last_call.outcome = "False"

\* the caller's signature has the mode's length and elements of the mode's
\* element type
WellFormedSignature ==
    /\ Len(signature) = SignatureLength(mode)
    /\ \A k \in 1..Len(signature) : WellFormedElement(mode, signature[k])

\* C4: in each mode, a signature of the mode's length that differs in at
\* least one element from the one sign_message returns for the message (a
\* flipped bit, substituted random elements) makes verify_signature return
\* False.
C4_DifferentSignatureFalse ==
    (/\ VerifiedUnderGeneratedKey
     /\ WellFormedSignature
     /\ signature # sign_message(mode, last_call.message, private_key).val)
    => last_call.outcome = "False"

C4_Witness ==
    /\ VerifiedUnderGeneratedKey
    /\ WellFormedSignature
    /\ sig_state = "altered"
    /\ last_call.message = signed_string
    /\ signature # sign_message(mode, last_call.message, private_key).val
    /\ last_call.outcome = "False"

\* C5: in Mode B every expand_private_key call starts a fresh cipher stream
\* (the stream of the last call ends after 2 * max_message_length blocks, so
\* it began at block 0 whatever was expanded before), and signing the same
\* message again with the same seed returns the signature it returned before.
C5_ExpansionDeterministic ==
    /\ [](mode = "B" /\ pc = "keyed" => enc_pos = 2 * max_message_length)
    /\ [][(/\ mode = "B"
           /\ last_call'.op = "sign"
           /\ last_call'.count >= 2)
          => /\ signature' = signature
             /\ Len(signature') = max_message_length]_vars

C5_Witness ==
    /\ mode = "B"
    /\ last_call.op = "sign"
    /\ last_call.count >= 2
    /\ last_call.outcome = "returned"
    /\ enc_pos = 2 * max_message_length

\* C6 as stated: for the generated public key and any signature of the
\* mode's length, whatever its elements, verify_signature ends with True or
\* False, never with an error.
C6_VerifyNeverRaises ==
    (/\ VerifiedUnderGeneratedKey
     /\ Len(signature) = SignatureLength(mode))
    => last_call.outcome \in {"True", "False"}

\* C7 as stated: verify_signature fails with MalformedSignature whenever the
\* signature's length is not the mode's signature length.
C7_MalformedSignatureRaised ==
    (/\ VerifiedUnderGeneratedKey
     /\ last_call.sig_len # SignatureLength(mode))
    => last_call.outcome = "MalformedSignature"

\* C8 as stated: sign_message (Modes A, C) and verify_signature (Modes A, B)
\* fail with MalformedKey whenever the key list they are given does not have
\* exactly 2 * max_message_length elements.
C8_MalformedKeyRaised ==
    (/\ \/ last_call.op = "sign" /\ mode \in {"A", "C"}
        \/ last_call.op = "verify" /\ mode \in {"A", "B"}
     /\ last_call.key_len # 2 * max_message_length)
    => last_call.outcome = "MalformedKey"

IsPowerOfTwo(n) == \E k \in 0..n : 2 ^ k = n

\* C9 as stated: merkle_root fails with InvalidLeafCount whenever the number
\* of leaves is zero or not a power of two.
C9_InvalidLeafCountRaised ==
    (/\ root # NoRoot
     /\ ~IsPowerOfTwo(Len(leaves)))
    => root.err = "InvalidLeafCount"

\* C10: a verify_signature call leaves the caller's signature, public key,
\* private key and message as they were, in every mode, and a call repeated
\* on the same arguments returns what the call before it returned.
C10_VerifyPure ==
    [][(/\ last_call'.op = "verify"
        /\ last_call' # last_call)
       => /\ signature' = signature
          /\ public_key' = public_key
          /\ private_key' = private_key
          /\ signed_string' = signed_string
          /\ last_call'.count >= 2 => last_call'.outcome = last_call.outcome]_vars

C10_Witness ==
    /\ mode = "C"
    /\ VerifiedUnderGeneratedKey
    /\ sig_state = "signed"
    /\ last_call.count >= 2
    /\ last_call.outcome = "True"

\* C11: the API does not enforce one-time use: sign_message leaves the
\* private key as it was, a further sign_message of another message with the
\* same key returns a signature without error, and each of the signatures
\* made with the key verifies against the public key for its own message.
C11_ReuseNotBlocked ==
    /\ [](\A message \in SignedMessages : verdicts[message] \in {"none", "True"})
    /\ [][(/\ last_call'.op = "sign"
           /\ last_call' # last_call)
          => /\ last_call'.outcome = "returned"
             /\ private_key' = private_key
             /\ public_key' = public_key]_vars

C11_Witness ==
    \E m1, m2 \in SignedMessages :
        /\ m1 # m2
        /\ signatures[m1] # signatures[m2]
        /\ verdicts[m1] = "True"
        /\ verdicts[m2] = "True"

\* C12: in Mode A, someone who holds the public key and the signatures of two
\* messages made with one private key can assemble, from the elements those
\* signatures reveal, a signature that verify_signature accepts for a third
\* message, whenever every digest bit of the third message is the bit of one
\* of the two signed messages at that position.
C12_ReuseForgery ==
    (/\ mode = "A"
     /\ target # "none"
     /\ verdicts[target] # "none"
     /\ Covered(target))
    => verdicts[target] = "True"

C12_Witness ==
    /\ mode = "A"
    /\ target # "none"
    /\ target \notin SignedMessages
    /\ Cardinality(SignedMessages) = Cardinality(AllMessages) - 1
    /\ \A message \in SignedMessages :
          /\ hash_message(message) # hash_message(target)
          /\ signatures[message] # signature
    /\ Covered(target)
    /\ verdicts[target] = "True"

\* C13: choose_key_elements(digest, table) returns exactly max_message_length
\* (256) elements, and its element i is table[2*i + b_i], b_i being bit i of
\* the digest counted from the most significant bit of each byte, the bytes
\* in the order given; a Mode A signature, and the selection from an expanded
\* Mode B key, has exactly that many elements.
C13_SelectsByDigestBits ==
    /\ output.op = "choose_key_elements"
       => /\ output.err = ""
          /\ Len(output.val) = max_message_length
          /\ \A i \in 0..(max_message_length - 1) :
                output.val[i + 1] = table_in[2 * i + DigestBitOf(digest_in, i) + 1]
    /\ output.op = "sign_message"
       => Len(output.signature_A) = max_message_length

C13_Witness ==
    /\ output.op = "choose_key_elements"
    /\ digest_in[1] # digest_in[DigestBytes]
    /\ mode = "B"
    /\ output.val[1] = table_in[2]
    /\ output.val[max_message_length] = table_in[2 * max_message_length - 1]

\* the caller's signature is the one sign_message of Mode C returned for
\* signed_string under the generated private key
SignedByModeC == mode = "C" /\ key_state = "generated" /\ sig_state = "signed"

\* the index of the branch the digest bit of position i selects, and of the other
ChosenIndex(i) == 2 * i + DigestBitOf(hash_message(signed_string), i)
UnchosenIndex(i) == 2 * i + 1 - DigestBitOf(hash_message(signed_string), i)

\* the signature has 2 * max_message_length (512) elements: at the chosen
\* index of each bit position the private key element itself, at the other
\* index the hash of the private key element
BranchesOfSignatureC ==
    /\ Len(signature) = 2 * max_message_length
    /\ \A i \in 0..(max_message_length - 1) :
          /\ At(signature, ChosenIndex(i)) = At(private_key, ChosenIndex(i))
          /\ At(signature, UnchosenIndex(i)) = hash_bytes(At(private_key, UnchosenIndex(i)))

RECURSIVE LevelUp(_)
LevelUp(nodes) ==
    IF Len(nodes) = 1 THEN nodes[1]
    ELSE LevelUp([k \in 1..(Len(nodes) \div 2) |->
                     sha3_256(nodes[2 * k - 1] \o nodes[2 * k])])

FirstHalf(ls) == SubSeq(ls, 1, Len(ls) \div 2)
SecondHalf(ls) == SubSeq(ls, (Len(ls) \div 2) + 1, Len(ls))

\* C15: over 2^n leaves, merkle_root of a single leaf is the leaf itself,
\* unhashed, and merkle_root of a longer list is the hash of the roots of its
\* first and second half joined, the split being at the midpoint (which is
\* the tree built upwards from neighbouring pairs); computed again over the
\* same list it gives the same result.
C15_MerkleRecursion ==
    /\ []((/\ root # NoRoot
           /\ IsPowerOfTwo(Len(leaves)))
          => /\ root.err = ""
             /\ Len(leaves) = 1 => root.val = leaves[1]
             /\ Len(leaves) > 1 =>
                   root.val = sha3_256(merkle_root(FirstHalf(leaves)).val
                                       \o merkle_root(SecondHalf(leaves)).val)
             /\ root.val = LevelUp(leaves))
    /\ [][root'.calls > 1 => root'.val = root.val /\ root'.err = root.err]_vars

C15_Witness ==
    /\ Len(leaves) = 4
    /\ leaves[1] # leaves[2]
    /\ leaves[2] # leaves[3]
    /\ root.calls > 1
    /\ root.val = sha3_256(sha3_256(leaves[1] \o leaves[2])
                           \o sha3_256(leaves[3] \o leaves[4]))

\* C16: merkle_root depends on the order of the leaves: over 2^n leaves,
\* n >= 1, the root of the list with two leaves of different values swapped
\* differs from the root of the list as it was.
C16_MerkleOrderMatters ==
    (/\ root.swapped
     /\ IsPowerOfTwo(Len(leaves))
     /\ Len(leaves) > 1)
    => /\ root.err = ""
       /\ root.val # root.before

C16_Witness ==
    /\ root.swapped
    /\ Len(leaves) = 4
    /\ leaves[1] = leaves[2]
    /\ leaves[1] # leaves[3]
    /\ root.before = sha3_256(sha3_256(leaves[3] \o leaves[2])
                              \o sha3_256(leaves[1] \o leaves[4]))
    /\ root.val # root.before

\* C17: Mode B is Mode A run over the expanded key: the public key is the
\* element-wise hash, in order, of the 2 * max_message_length (512) elements
\* expand_private_key gives for the seed; the signature is the selection
\* Mode A's sign_message makes from that expanded key; and verify_signature
\* of the two modes gives the same outcome for the same message, public key
\* and signature (the elements of a Mode A signature being ints, the Mode B
\* verifier is handed their security_parameter // 8 bytes, big end first).
C17_ModeBIsModeAOverExpandedKey ==
    /\ (mode = "B" /\ key_state = "generated")
       => /\ Len(ExpandedKey) = 2 * max_message_length
          /\ public_key = [k \in 1..Len(ExpandedKey) |-> sha3_256(ExpandedKey[k])]
    /\ (mode = "B" /\ sig_state = "signed")
       => /\ signature = sign_message_A(signed_string, ExpandedKey).val
          /\ signature = choose_key_elements(hash_message(signed_string), ExpandedKey).val
    /\ (/\ mode = "A"
        /\ last_call.op = "verify"
        /\ \A k \in 1..Len(signature) : WellFormedElement(mode, signature[k]))
       => last_call.outcome =
             OutcomeName(verify_signature_B(last_call.message, public_key,
                                            as_bytes(signature)))

C17_Witness ==
    /\ mode = "B"
    /\ VerifiedUnderGeneratedKey
    /\ sig_state = "signed"
    /\ last_call.message = signed_string
    /\ signature = sign_message_A(signed_string, ExpandedKey).val
    /\ public_key[2] = sha3_256(ExpandedKey[2])
    /\ public_key[2] # public_key[1]
    /\ last_call.outcome =
          OutcomeName(verify_signature_B(signed_string, public_key, signature))

\* C18: the bit decoders of the modes agree: convert_bytes_to_bits gives at
\* position i the bit choose_key_elements indexes by; for one private key and
\* message the Mode A signature is the chosen-branch elements of the Mode C
\* signature (element i of the one is element 2*i + b_i of the other); the
\* list Mode C's verify_signature hashes the honest signature into is the
\* Mode A public key, the element-wise hash of the private key; and the
\* Mode C public key is merkle_root of the Mode A public key.
C18_DecodersAgree ==
    /\ output.op = "convert_bytes_to_bits"
       => /\ Len(output.val) = max_message_length
          /\ \A i \in 0..(max_message_length - 1) :
                output.val[i + 1] = (key_index(digest_in, i) = 2 * i + 1)
    /\ output.op = "sign_message"
       => /\ output.err = ""
          /\ Len(output.signature_C) = 2 * Len(output.signature_A)
          /\ \A i \in 0..(max_message_length - 1) :
                as_bytes(output.signature_A)[i + 1]
                    = At(output.signature_C, 2 * i + DigestBitOf(digest_in, i))
          /\ output.public_key_A = [k \in 1..Len(table_in) |->
                                       sha3_256(as_bytes(table_in)[k])]
          /\ output.promoted_C = output.public_key_A
          /\ output.public_key_C = merkle_root(output.public_key_A).val
          /\ output.verified_C = TRUE

C18_Witness ==
    /\ output.op = "sign_message"
    /\ digest_in[1] # digest_in[DigestBytes]
    /\ DigestBitOf(digest_in, 0) = 1
    /\ DigestBitOf(digest_in, max_message_length - 1) = 1
    /\ At(output.signature_C, 1) = as_bytes(output.signature_A)[1]
    /\ At(output.signature_C, 0) = At(output.public_key_A, 0)
    /\ output.promoted_C = output.public_key_A
    /\ output.verified_C = TRUE

====
